---- MODULE Spec2Model ----
(***************************************************************************)
(* A model of KubaGame (src/KubaGame.py): the 7x7 board, the move          *)
(* pipeline make_move, the win evaluation and the legal-move check.        *)
(* Coordinates are the source's 0-based (row, column) pairs; a marble      *)
(* position (r, c) is the tuple <<r, c>>.                                  *)
(***************************************************************************)
EXTENDS Integers, Sequences, FiniteSets, TLC

\* ------------------------------------------------------------------------
\* Program constants
\* ------------------------------------------------------------------------

\* Side of the board: the literal of __init__ has 7 rows of 7 cells.
N == 7

\* Captured neutral marbles that win the game (make_move, line 216).
CaptureGoal == 7

\* What get_marble / list indexing yields instead of a value when it raises.
IndexError == "IndexError"

\* Python's None, for _current and _winner.
None == "None"

\* DIRECTIONS: direction key -> (row, column) offset, in dictionary order.
DirKeys == <<"F", "R", "L", "B">>

DIRECTIONS == [F |-> <<-1, 0>>, R |-> <<0, 1>>, L |-> <<0, -1>>, B |-> <<1, 0>>]

\* The two players of main(): KubaGame(('PlayerA', 'W'), ('PlayerB', 'B')),
\* in the insertion order of _players_info.
PlayerNames == <<"PlayerA", "PlayerB">>

Registered == {PlayerNames[i] : i \in 1..2}

color == [PlayerA |-> "W", PlayerB |-> "B"]

Cells == {"X", "R", "W", "B"}

Row(s) == [c \in 0..(N-1) |-> s[c+1]]

\* The starting layout of __init__.
InitialBoard ==
  LET rows == << Row(<<"W", "W", "X", "X", "X", "B", "B">>),
                 Row(<<"W", "W", "X", "R", "X", "B", "B">>),
                 Row(<<"X", "X", "R", "R", "R", "X", "X">>),
                 Row(<<"X", "R", "R", "R", "R", "R", "X">>),
                 Row(<<"X", "X", "R", "R", "R", "X", "X">>),
                 Row(<<"B", "B", "X", "R", "X", "W", "W">>),
                 Row(<<"B", "B", "X", "X", "X", "W", "W">>) >>
  IN  [r \in 0..(N-1) |-> rows[r+1]]

\* ------------------------------------------------------------------------
\* Bounds of the exploration
\* ------------------------------------------------------------------------

\* Coordinates submitted by callers range over -Margin .. N-1+Margin.
Margin == 1

\* Calls a caller may submit besides those of the recorded line of play.
MaxCalls == 1

Coords == (0 - Margin)..(N - 1 + Margin)

Positions == Coords \X Coords

OnBoardPositions == (0..(N-1)) \X (0..(N-1))

\* Names and directions callers submit: the registered ones and one more.
Names == Registered \cup {"PlayerC"}

Dirs == {"F", "R", "L", "B", "Z"}

\* ------------------------------------------------------------------------
\* State
\* ------------------------------------------------------------------------

VARIABLES
  board,        \* self._board
  last_board,   \* self._last_board
  current,      \* self._current
  winner,       \* self._winner
  captured,     \* self._players_info[name]['captured']
  ret,          \* value returned by the last make_move call (None before)
  exit,         \* source line of the return statement that call took
  lastMove,     \* history: the last accepted call (NoMove before)
  prevBoard,    \* history: the board as it was before the last accepted move
  moves,        \* history: number of accepted moves so far
  book,         \* every accepted move so far is one of the recorded line
  calls,        \* calls submitted besides those of the recorded line
  args,         \* the (name, color) pairs given to the constructor
  built,        \* "none" before __init__ ran, then "ok" or "ValueError"
  lineOfPlay    \* the recorded line of play the callers follow

vars == <<board, last_board, current, winner, captured, ret, exit,
          lastMove, prevBoard, moves, book, calls, args, built,
          lineOfPlay>>

\* ------------------------------------------------------------------------
\* Board primitives
\* ------------------------------------------------------------------------

\* Indexing a Python list of length N: indices -N..N-1 are accepted, the
\* negative ones counting from the end; any other index raises IndexError.
PyIndexOK(i) == i >= 0 - N /\ i < N

PyIdx(i) == IF i < 0 THEN i + N ELSE i

\* get_marble without its test for negative coordinates: a negative index
\* then counts from the end of the list.
get_marble_NoNegativeCheck(b, marble) ==
  IF ~PyIndexOK(marble[1]) \/ ~PyIndexOK(marble[2]) THEN IndexError
  ELSE b[PyIdx(marble[1])][PyIdx(marble[2])]

\* get_marble: raises for a negative coordinate, then indexes the lists.
get_marble(b, marble) ==
  IF marble[1] < 0 \/ marble[2] < 0 THEN IndexError
  ELSE IF ~PyIndexOK(marble[1]) \/ ~PyIndexOK(marble[2]) THEN IndexError
  ELSE b[PyIdx(marble[1])][PyIdx(marble[2])]

\* self._board[r][c] = v, a plain list assignment.
SetCell(b, pos, v) == [b EXCEPT ![PyIdx(pos[1])][PyIdx(pos[2])] = v]

\* _boards_equal comparing the two lists by identity: a board and a copy of
\* it are never the same object.
_boards_equal_Identity(a, b) == FALSE

\* _boards_equal: no cell of a differs from the cell of b at its position.
_boards_equal(a, b) ==
  \A r \in DOMAIN a : \A c \in DOMAIN a[r] : a[r][c] = b[r][c]

\* _copy_board: a new list of copies of the rows.
_copy_board(b) == [r \in DOMAIN b |-> [c \in DOMAIN b[r] |-> b[r][c]]]

\* get_marble_count: (white, black, red), every marble that is neither
\* white nor black counted as red.
get_marble_count(b) ==
  LET Count(S) == Cardinality({p \in OnBoardPositions : b[p[1]][p[2]] \in S})
  IN  << Count({"W"}), Count({"B"}), Count(Cells \ {"X", "W", "B"}) >>

Plus(marble, offset) == <<marble[1] + offset[1], marble[2] + offset[2]>>

Minus(marble, offset) == <<marble[1] - offset[1], marble[2] - offset[2]>>

\* _has_legal_move that takes the IndexError of an off-board neighbour for
\* "no move there".
_has_legal_move_EmptyOnly(b, marble) ==
  \E i \in DOMAIN DirKeys :
    get_marble(b, Plus(marble, DIRECTIONS[DirKeys[i]])) = "X"

\* _has_legal_move: some neighbouring cell is absent or off the board.
_has_legal_move(b, marble) ==
  \E i \in DOMAIN DirKeys :
    LET n == get_marble(b, Plus(marble, DIRECTIONS[DirKeys[i]]))
    IN  n = "X" \/ n = IndexError

\* ------------------------------------------------------------------------
\* make_move
\* ------------------------------------------------------------------------

\* Lines 181-191: the marbles from the chosen one on, in the direction of
\* the push, up to an absent cell or the end of the board.
RECURSIVE Collect(_, _, _)
Collect(b, moving_marbles, offset) ==
  LET last_marble == moving_marbles[Len(moving_marbles)]
      cur == Plus(last_marble, offset)
      current_color == get_marble(b, cur)
  IN  IF current_color = IndexError \/ current_color = "X"
        THEN moving_marbles
        ELSE Collect(b, Append(moving_marbles, cur), offset)

\* PushOne that counts every marble that leaves the board, of any colour.
PushOne_AnyColour(b, cap, moving, offset) ==
  LET destination == Plus(moving, offset)
  IN  IF get_marble(b, destination) = IndexError
        THEN [board |-> b, captured |-> cap + 1]
        ELSE [board |-> SetCell(SetCell(b, destination, get_marble(b, moving)),
                                moving, "X"),
              captured |-> cap]

\* PushOne that never counts a capture.
PushOne_NoCount(b, cap, moving, offset) ==
  LET destination == Plus(moving, offset)
  IN  IF get_marble(b, destination) = IndexError
        THEN [board |-> b, captured |-> cap]
        ELSE [board |-> SetCell(SetCell(b, destination, get_marble(b, moving)),
                                moving, "X"),
              captured |-> cap]

\* PushOne that copies the marble to its destination and leaves it in its
\* cell as well.
PushOne_NoClear(b, cap, moving, offset) ==
  LET destination == Plus(moving, offset)
  IN  IF get_marble(b, destination) = IndexError
        THEN [board |-> b,
              captured |-> IF get_marble(b, moving) = "R" THEN cap + 1 ELSE cap]
        ELSE [board |-> SetCell(b, destination, get_marble(b, moving)),
              captured |-> cap]

\* Lines 196-206, one iteration for moving_marbles[i]: the marble goes to
\* its destination and leaves its cell, unless the destination is off the
\* board, where only the capture counter may change.
PushOne(b, cap, moving, offset) ==
  LET destination == Plus(moving, offset)
  IN  IF get_marble(b, destination) = IndexError
        THEN [board |-> b,
              captured |-> IF get_marble(b, moving) = "R" THEN cap + 1 ELSE cap]
        ELSE [board |-> SetCell(SetCell(b, destination, get_marble(b, moving)),
                                moving, "X"),
              captured |-> cap]

\* The loop over moving_marbles[::-1], from index i down to 1.
RECURSIVE PushLoop(_, _, _, _, _)
PushLoop(b, cap, moving_marbles, i, offset) ==
  IF i = 0 THEN [board |-> b, captured |-> cap]
  ELSE LET one == PushOne(b, cap, moving_marbles[i], offset)
       IN  PushLoop(one.board, one.captured, moving_marbles, i - 1, offset)

\* Lines 179-206 together: the board and the mover's counter after the push.
Push(b, cap, marble, offset) ==
  LET moving_marbles == Collect(b, <<marble>>, offset)
  IN  PushLoop(b, cap, moving_marbles, Len(moving_marbles), offset)

\* Lines 227-239: the scan for a legal move of each colour, cell k on,
\* which ends as soon as both colours have one.
RECURSIVE Scan(_, _, _)
Scan(b, k, have_legal_moves) ==
  IF k = N * N THEN have_legal_moves
  ELSE LET r == k \div N
           c == k % N
           cell == b[r][c]
       IN  IF cell \notin DOMAIN have_legal_moves
             THEN Scan(b, k + 1, have_legal_moves)
             ELSE IF _has_legal_move(b, <<r, c>>)
               THEN LET h == [have_legal_moves EXCEPT ![cell] = TRUE]
                    IN  IF \A col \in DOMAIN h : h[col]
                          THEN h
                          ELSE Scan(b, k + 1, h)
               ELSE Scan(b, k + 1, have_legal_moves)

\* Lines 241-248: the first colour, in the order of _players_info, that has
\* no legal move.
MovelessColor(have_legal_moves) ==
  IF \E i \in 1..2 : ~have_legal_moves[color[PlayerNames[i]]]
    THEN LET i == CHOOSE j \in 1..2 :
                    /\ ~have_legal_moves[color[PlayerNames[j]]]
                    /\ \A h \in 1..(j-1) : have_legal_moves[color[PlayerNames[h]]]
         IN  color[PlayerNames[i]]
    ELSE None

\* next(name for name in self._players_info if ...): the first name, in
\* the order of _players_info, among those of S.
FirstName(S) ==
  PlayerNames[CHOOSE j \in 1..2 :
                /\ PlayerNames[j] \in S
                /\ \A h \in 1..(j-1) : PlayerNames[h] \notin S]

\* WinnerAfter that knows the seven captures only.
WinnerAfter_CapturesOnly(b, player_name, cap, w) ==
  IF cap >= CaptureGoal THEN player_name ELSE w

\* WinnerAfter without the scan for legal moves.
WinnerAfter_NoScan(b, player_name, cap, w) ==
  IF cap >= CaptureGoal THEN player_name
  ELSE IF get_marble_count(b)[IF color[player_name] = "W" THEN 2 ELSE 1] = 0
    THEN player_name
  ELSE w

\* WinnerAfter that gives the game to the player of the color without a
\* legal move.
WinnerAfter_MovelessWins(b, player_name, cap, w) ==
  IF cap >= CaptureGoal THEN player_name
  ELSE IF get_marble_count(b)[IF color[player_name] = "W" THEN 2 ELSE 1] = 0
    THEN player_name
  ELSE LET have_legal_moves ==
             Scan(b, 0, [col \in {color[n] : n \in Registered} |-> FALSE])
           moveless_color == MovelessColor(have_legal_moves)
       IN  IF moveless_color # None
             THEN FirstName({name \in Registered :
                               color[name] = moveless_color})
             ELSE w

\* WinnerAfter with the capture test off by one (more than 7 captures).
WinnerAfter_MoreThanGoal(b, player_name, cap, w) ==
  IF cap > CaptureGoal THEN player_name
  ELSE IF get_marble_count(b)[IF color[player_name] = "W" THEN 2 ELSE 1] = 0
    THEN player_name
  ELSE LET have_legal_moves ==
             Scan(b, 0, [col \in {color[n] : n \in Registered} |-> FALSE])
           moveless_color == MovelessColor(have_legal_moves)
       IN  IF moveless_color # None
             THEN FirstName({name \in Registered :
                               color[name] # moveless_color})
             ELSE w

\* Lines 214-256: the winner after a committed move of player_name, whose
\* counter is cap; w is the winner so far.
WinnerAfter(b, player_name, cap, w) ==
  IF cap >= CaptureGoal THEN player_name
  ELSE IF get_marble_count(b)[IF color[player_name] = "W" THEN 2 ELSE 1] = 0
    THEN player_name
  ELSE LET have_legal_moves ==
             Scan(b, 0, [col \in {color[n] : n \in Registered} |-> FALSE])
           moveless_color == MovelessColor(have_legal_moves)
       IN  IF moveless_color # None
             THEN FirstName({name \in Registered :
                               color[name] # moveless_color})
             ELSE w

\* NextPlayer that leaves the turn with the mover.
NextPlayer_Same(player_name) == player_name

\* Lines 258-263: the first registered name that is not player_name.
NextPlayer(player_name) ==
  FirstName({name \in Registered : name # player_name})

\* A return of False at the given line, nothing having been assigned.
Reject(line) ==
  [ret |-> FALSE, exit |-> line, board |-> board, last_board |-> last_board,
   current |-> current, winner |-> winner, captured |-> captured]

\* Execute that returns False on a repetition without putting the backup
\* back.
Execute_KeepPush(player_name, marble, offset) ==
  LET board_backup == _copy_board(board)
      pushed == Push(board, captured[player_name], marble, offset)
      cap == [captured EXCEPT ![player_name] = pushed.captured]
  IN  IF _boards_equal(pushed.board, last_board)
        THEN [ret |-> FALSE, exit |-> 211, board |-> pushed.board,
              last_board |-> last_board, current |-> current,
              winner |-> winner, captured |-> cap]
        ELSE [ret |-> TRUE, exit |-> 265, board |-> pushed.board,
              last_board |-> board_backup,
              current |-> NextPlayer(player_name),
              winner |-> WinnerAfter(pushed.board, player_name,
                                     pushed.captured, winner),
              captured |-> cap]

\* Lines 193-265: the push, the repetition check, the commit.
Execute(player_name, marble, offset) ==
  LET board_backup == _copy_board(board)
      pushed == Push(board, captured[player_name], marble, offset)
      cap == [captured EXCEPT ![player_name] = pushed.captured]
  IN  IF _boards_equal(pushed.board, last_board)
        THEN [ret |-> FALSE, exit |-> 211, board |-> board_backup,
              last_board |-> last_board, current |-> current,
              winner |-> winner, captured |-> cap]
        ELSE [ret |-> TRUE, exit |-> 265, board |-> pushed.board,
              last_board |-> board_backup,
              current |-> NextPlayer(player_name),
              winner |-> WinnerAfter(pushed.board, player_name,
                                     pushed.captured, winner),
              captured |-> cap]

\* TurnOK without the turn check.
TurnOK_Always(player_name) == TRUE

\* TurnOK that forgets the undetermined turn before the first move.
TurnOK_Strict(player_name) == current = player_name

\* Lines 154-157: it is the player's turn.
TurnOK(player_name) == ~(current # None /\ current # player_name)

\* BehindOK that takes an off-board cell behind the marble for a blocker.
BehindOK_OnBoardOnly(marble, offset) ==
  LET behind_color == get_marble(board, Minus(marble, offset))
  IN  behind_color = "X"

\* Lines 169-177: the cell behind the marble does not block the move.
BehindOK(marble, offset) ==
  LET behind_color == get_marble(board, Minus(marble, offset))
  IN  behind_color = IndexError \/ ~(behind_color # "X")

\* Decided without the test of the winner.
Decided_Never == FALSE

\* Line 141: the game is already won.
Decided == winner # None

\* NotOwn that only refuses an empty cell.
NotOwn_OnlyEmpty(marble_color, player_name) == marble_color = "X"

\* Line 166: the marble is not of the player's colour.
NotOwn(marble_color, player_name) == marble_color # color[player_name]

\* make_move: the result of the call in the present state, as the value
\* returned, the return statement taken and the fields after the call.
make_move(player_name, marble, direction) ==
  IF Decided THEN Reject(142)
  ELSE IF direction \notin DOMAIN DIRECTIONS THEN Reject(146)
  ELSE IF player_name \notin Registered THEN Reject(150)
  ELSE IF ~TurnOK(player_name) THEN Reject(157)
  ELSE IF get_marble(board, marble) = IndexError THEN Reject(163)
  ELSE IF NotOwn(get_marble(board, marble), player_name) THEN Reject(167)
  ELSE IF ~BehindOK(marble, DIRECTIONS[direction]) THEN Reject(175)
  ELSE Execute(player_name, marble, DIRECTIONS[direction])

\* ------------------------------------------------------------------------
\* The game
\* ------------------------------------------------------------------------

\* A recorded line of play, each entry a call (player, marble, direction)
\* that make_move accepts in turn; PlayerA wins it with a seventh capture.
\* Games follow it from the start and may leave it at the moves of BranchAt.
Script ==
  << <<"PlayerA", <<0, 0>>, "R">>, <<"PlayerB", <<0, 6>>, "L">>,
     <<"PlayerA", <<0, 1>>, "R">>, <<"PlayerB", <<6, 0>>, "R">>,
     <<"PlayerA", <<0, 2>>, "R">>, <<"PlayerB", <<1, 6>>, "L">>,
     <<"PlayerA", <<0, 4>>, "B">>, <<"PlayerB", <<6, 1>>, "F">>,
     <<"PlayerA", <<1, 0>>, "B">>, <<"PlayerB", <<6, 2>>, "R">>,
     <<"PlayerA", <<0, 3>>, "B">>, <<"PlayerB", <<0, 6>>, "L">>,
     <<"PlayerA", <<1, 3>>, "B">>, <<"PlayerB", <<0, 4>>, "B">>,
     <<"PlayerA", <<2, 3>>, "B">>, <<"PlayerB", <<0, 5>>, "R">>,
     <<"PlayerA", <<3, 3>>, "B">>, <<"PlayerB", <<5, 0>>, "F">>,
     <<"PlayerA", <<4, 3>>, "B">>, <<"PlayerB", <<1, 4>>, "R">>,
     <<"PlayerA", <<5, 3>>, "B">>, <<"PlayerB", <<0, 6>>, "B">>,
     <<"PlayerA", <<2, 4>>, "B">>, <<"PlayerB", <<2, 6>>, "R">>,
     <<"PlayerA", <<3, 4>>, "B">> >>

BranchAt == {0, 1, 5, 8, 12, 24, 25}

\* A second line of play: PlayerB pushes its own marbles off the board and
\* PlayerA the rest, the last of them with the nineteenth move.
Script2 ==
  << <<"PlayerA", <<6, 6>>, "F">>, <<"PlayerB", <<5, 1>>, "L">>,
     <<"PlayerA", <<5, 6>>, "F">>, <<"PlayerB", <<6, 1>>, "L">>,
     <<"PlayerA", <<4, 6>>, "F">>, <<"PlayerB", <<5, 0>>, "B">>,
     <<"PlayerA", <<0, 0>>, "B">>, <<"PlayerB", <<1, 5>>, "R">>,
     <<"PlayerA", <<1, 0>>, "B">>, <<"PlayerB", <<0, 5>>, "R">>,
     <<"PlayerA", <<3, 6>>, "F">>, <<"PlayerB", <<6, 0>>, "L">>,
     <<"PlayerA", <<2, 6>>, "F">>, <<"PlayerB", <<6, 0>>, "L">>,
     <<"PlayerA", <<2, 0>>, "B">>, <<"PlayerB", <<6, 0>>, "L">>,
     <<"PlayerA", <<3, 0>>, "B">>, <<"PlayerB", <<6, 0>>, "L">>,
     <<"PlayerA", <<4, 0>>, "B">> >>

BranchAt2 == {18, 19}

\* A third line of play: the black marbles leave the board but for one, in
\* the middle of the board, that ends with a marble on each of its sides.
Script3 ==
  << <<"PlayerA", <<6, 5>>, "F">>, <<"PlayerB", <<0, 6>>, "B">>,
     <<"PlayerA", <<0, 0>>, "B">>, <<"PlayerB", <<1, 6>>, "B">>,
     <<"PlayerA", <<0, 1>>, "B">>, <<"PlayerB", <<3, 6>>, "L">>,
     <<"PlayerA", <<6, 6>>, "F">>, <<"PlayerB", <<3, 5>>, "L">>,
     <<"PlayerA", <<5, 5>>, "F">>, <<"PlayerB", <<1, 5>>, "F">>,
     <<"PlayerA", <<5, 6>>, "F">>, <<"PlayerB", <<0, 5>>, "R">>,
     <<"PlayerA", <<4, 6>>, "F">>, <<"PlayerB", <<5, 1>>, "L">>,
     <<"PlayerA", <<3, 6>>, "F">>, <<"PlayerB", <<6, 1>>, "L">>,
     <<"PlayerA", <<2, 6>>, "F">>, <<"PlayerB", <<6, 0>>, "L">>,
     <<"PlayerA", <<1, 0>>, "B">>, <<"PlayerB", <<6, 0>>, "L">>,
     <<"PlayerA", <<2, 0>>, "B">>, <<"PlayerB", <<6, 0>>, "L">>,
     <<"PlayerA", <<3, 0>>, "B">> >>

BranchAt3 == {9, 22, 23}

\* The recorded lines of play, and where a game may leave each.
Lines == <<Script, Script2, Script3>>

Branches == <<BranchAt, BranchAt2, BranchAt3>>

\* ------------------------------------------------------------------------
\* Construction
\* ------------------------------------------------------------------------

\* A color token is a string, here the sequence of its characters.
ValidColors == <<"W", "B">>

\* Python's "sub in s" for strings: sub occurs in s as a substring.
InStr(sub, s) ==
  \E i \in 0..(Len(s) - Len(sub)) : SubSeq(s, i + 1, i + Len(sub)) = sub

\* __init__ whose snapshot of the board starts as an empty board.
__init__EmptySnapshot(player_one, player_two) ==
  LET both_players == <<player_one, player_two>>
  IN  IF \E i \in 1..2 : both_players[i][1] = ""
                          \/ ~InStr(both_players[i][2], ValidColors)
        THEN [raised |-> TRUE]
      ELSE IF player_one[2] = player_two[2] THEN [raised |-> TRUE]
      ELSE IF Cardinality({both_players[i][1] : i \in 1..2}) # 2
        THEN [raised |-> TRUE]
      ELSE [raised |-> FALSE,
            captured |-> [n \in {both_players[i][1] : i \in 1..2} |-> 0],
            current |-> None,
            winner |-> None,
            board |-> InitialBoard,
            last_board |-> [r \in 0..(N-1) |-> [c \in 0..(N-1) |-> "X"]]]

\* __init__, lines 16-54: raises ValueError for an empty name, for a color
\* that is not in 'WB', for equal colors and for equal names; otherwise
\* sets the fields of the new game.
__init__(player_one, player_two) ==
  LET both_players == <<player_one, player_two>>
  IN  IF \E i \in 1..2 : both_players[i][1] = ""
                          \/ ~InStr(both_players[i][2], ValidColors)
        THEN [raised |-> TRUE]
      ELSE IF player_one[2] = player_two[2] THEN [raised |-> TRUE]
      ELSE IF Cardinality({both_players[i][1] : i \in 1..2}) # 2
        THEN [raised |-> TRUE]
      ELSE [raised |-> FALSE,
            captured |-> [n \in {both_players[i][1] : i \in 1..2} |-> 0],
            current |-> None,
            winner |-> None,
            board |-> InitialBoard,
            last_board |-> _copy_board(InitialBoard)]

\* The arguments of main(): KubaGame(('PlayerA', 'W'), ('PlayerB', 'B')).
MainArgs == << <<"PlayerA", <<"W">> >>, <<"PlayerB", <<"B">> >> >>

\* Names and color tokens given to the constructor.
CtorNames == {"", "PlayerA", "PlayerB"}

CtorColors == {<< >>, <<"W">>, <<"B">>, <<"R">>, <<"W", "B">>, <<"B", "W">>}

\* Before construction: the arguments are chosen, no field has a value.
InitConstruct ==
  /\ args \in (CtorNames \X CtorColors) \X (CtorNames \X CtorColors)
  /\ built = "none"
  /\ board = None
  /\ last_board = None
  /\ current = None
  /\ winner = None
  /\ captured = None
  /\ ret = FALSE
  /\ exit = 0
  /\ lastMove = [player |-> None, marble |-> <<0, 0>>, direction |-> None]
  /\ prevBoard = None
  /\ moves = 0
  /\ book = TRUE
  /\ calls = 0
  /\ lineOfPlay = 1

\* KubaGame(player_one, player_two).
Construct ==
  /\ built = "none"
  /\ LET res == __init__(args[1], args[2])
     IN  IF res.raised
           THEN /\ built' = "ValueError"
                /\ UNCHANGED <<board, last_board, current, winner, captured>>
           ELSE /\ built' = "ok"
                /\ board' = res.board
                /\ last_board' = res.last_board
                /\ current' = res.current
                /\ winner' = res.winner
                /\ captured' = res.captured
  /\ UNCHANGED <<ret, exit, lastMove, prevBoard, moves, book, calls, args,
                 lineOfPlay>>

NextConstruct == Construct

SpecConstruct == InitConstruct /\ [][NextConstruct]_vars

\* The history before the first accepted move.
NoMove == [player |-> None, marble |-> <<0, 0>>, direction |-> None]

\* __init__, lines 42-54, for the two players of main().
Init ==
  /\ board = InitialBoard
  /\ last_board = _copy_board(InitialBoard)
  /\ current = None
  /\ winner = None
  /\ captured = [n \in Registered |-> 0]
  /\ ret = FALSE
  /\ exit = 0
  /\ lastMove = NoMove
  /\ prevBoard = InitialBoard
  /\ moves = 0
  /\ book = TRUE
  /\ calls = 0
  /\ args = MainArgs
  /\ built = "ok"
  /\ lineOfPlay \in DOMAIN Lines

\* The call make_move(player_name, marble, direction): the fields take the
\* values the call leaves, the history records the call.
Call(player_name, marble, direction) ==
  LET res == make_move(player_name, marble, direction)
  IN  /\ board' = res.board
      /\ last_board' = res.last_board
      /\ current' = res.current
      /\ winner' = res.winner
      /\ captured' = res.captured
      /\ ret' = res.ret
      /\ exit' = res.exit
      /\ lastMove' = IF res.ret
                       THEN [player |-> player_name, marble |-> marble,
                             direction |-> direction]
                       ELSE lastMove
      /\ prevBoard' = IF res.ret THEN board ELSE prevBoard
      /\ moves' = IF res.ret THEN moves + 1 ELSE moves
      /\ UNCHANGED <<args, built, lineOfPlay>>

\* The next call of the recorded line of play.
IsScripted(player_name, marble, direction) ==
  /\ book
  /\ moves < Len(Lines[lineOfPlay])
  /\ <<player_name, marble, direction>> = Lines[lineOfPlay][moves + 1]

ScriptedCall ==
  /\ book
  /\ moves < Len(Lines[lineOfPlay])
  /\ LET next == Lines[lineOfPlay][moves + 1]
     IN  Call(next[1], next[2], next[3])
  /\ UNCHANGED <<book, calls>>

\* Any call by any caller, where the game may leave the recorded line.
FreeCall ==
  /\ calls < MaxCalls
  /\ ~book \/ moves \in Branches[lineOfPlay]
  /\ \E player_name \in Names, marble \in Positions, direction \in Dirs :
       /\ Call(player_name, marble, direction)
       /\ calls' = calls + 1
       /\ book' = (book /\ (ret' => IsScripted(player_name, marble, direction)))

Next == ScriptedCall \/ FreeCall

Spec == Init /\ [][Next]_vars

\* ------------------------------------------------------------------------
\* Properties
\* ------------------------------------------------------------------------

\* The registered player that is not p.
OtherPlayer(p) == CHOOSE n \in Registered : n # p

\* The position lies outside the 7x7 grid.
OffBoard(m) == m[1] < 0 \/ m[1] >= N \/ m[2] < 0 \/ m[2] >= N

\* The fields of the game are, after the call with result res, what they
\* were before it.
Untouched(res) ==
  /\ res.board = board
  /\ res.last_board = last_board
  /\ res.current = current
  /\ res.winner = winner
  /\ res.captured = captured

\* C1: a make_move call that returns false, at whichever check, leaves the
\* board, the turn, both capture counters, the winner and the previous-board
\* snapshot as they were before the call.
C1_RejectedCallChangesNothing ==
  \A player_name \in Names, marble \in Positions, direction \in Dirs :
    LET res == make_move(player_name, marble, direction)
    IN  ~res.ret => Untouched(res)

\* A call has been rejected by the repetition check, after its push was
\* simulated on the board.
C1_Witness == ~ret /\ exit = 211

\* C2: after an accepted move of P the turn is the other registered
\* player's, also when the move decided the game; the mover of an accepted
\* move is never the mover of the accepted move before it, and every call
\* by the player who moved last returns false.
C2_TurnAlternates ==
  /\ [](moves > 0 =>
          /\ current = OtherPlayer(lastMove.player)
          /\ \A marble \in Positions, direction \in Dirs :
               ~make_move(lastMove.player, marble, direction).ret)
  /\ [][ret' /\ moves' = moves + 1 =>
          /\ current' = OtherPlayer(lastMove'.player)
          /\ lastMove'.player # lastMove.player]_vars

\* An accepted move has decided the game and the turn went to the opponent
\* of the winner-making mover.
C2_Witness ==
  /\ ret /\ exit = 265
  /\ winner # None
  /\ current = OtherPlayer(lastMove.player)

\* C3: after an accepted move from board b0 to board b1, a call whose
\* simulated push would recreate b0 returns false and leaves the board b1.
C3_ReversalRejected ==
  moves > 0 =>
    \A player_name \in Names, marble \in OnBoardPositions,
       direction \in DOMAIN DIRECTIONS :
      LET res == make_move(player_name, marble, direction)
      IN  /\ board[marble[1]][marble[2]] # "X"
          /\ Push(board, 0, marble, DIRECTIONS[direction]).board = prevBoard
          => ~res.ret /\ res.board = board

\* A call that would have moved the marbles back to where they stood before
\* the last accepted move has been rejected.
C3_Witness ==
  /\ moves > 0 /\ ~ret /\ exit = 211
  /\ board # prevBoard
  /\ \E marble \in OnBoardPositions, direction \in DOMAIN DIRECTIONS :
       /\ board[marble[1]][marble[2]] = color[OtherPlayer(lastMove.player)]
       /\ Push(board, 0, marble, DIRECTIONS[direction]).board = prevBoard

\* C4: a registered player whose capture counter is 7 or more is the winner.
C4_SevenCapturesWin ==
  \A p \in Registered : captured[p] >= 7 => winner = p

\* A player has just captured a seventh neutral marble.
C4_Witness ==
  /\ ret /\ exit = 265
  /\ captured[lastMove.player] = 7
  /\ get_marble_count(prevBoard)[3] = get_marble_count(board)[3] + 1

\* C5: once there is a winner every make_move call returns false, and the
\* winner, the board, the capture counters and the turn never change again.
C5_DecidedIsTerminal ==
  /\ [](winner # None =>
          \A player_name \in Names, marble \in Positions, direction \in Dirs :
            LET res == make_move(player_name, marble, direction)
            IN  ~res.ret /\ Untouched(res))
  /\ [][winner # None =>
          /\ ~ret'
          /\ UNCHANGED <<winner, board, captured, current>>]_vars

\* A call has been rejected because the game was already won.
C5_Witness == winner # None /\ ~ret /\ exit = 142

\* C6: while the turn is set to a player, every call under the name of the
\* other registered player returns false and leaves the board unchanged.
C6_NotYourTurn ==
  current # None =>
    \A marble \in Positions, direction \in Dirs :
      LET res == make_move(OtherPlayer(current), marble, direction)
      IN  ~res.ret /\ res.board = board

\* A call of the player whose turn it was not has been rejected by the turn
\* check.
C6_Witness == current # None /\ winner = None /\ ~ret /\ exit = 157

\* C7: before any move has been accepted the turn is undetermined, rejected
\* calls leave it so, and the turn check rejects neither registered player:
\* each of them has a first move that is accepted.
C7_AnyoneMovesFirst ==
  moves = 0 =>
    /\ current = None
    /\ \A p \in Registered :
         /\ \A marble \in Positions, direction \in Dirs :
              make_move(p, marble, direction).exit # 157
         /\ \E marble \in Positions, direction \in Dirs :
              make_move(p, marble, direction).ret

\* A call has been rejected before the first accepted move, and the turn is
\* still undetermined.
C7_Witness == moves = 0 /\ exit # 0 /\ ~ret /\ current = None

\* C8: make_move(P, position, direction) returns false whenever the cell at
\* the position is empty, neutral or of the opponent's colour.
C8_OnlyOwnMarbles ==
  \A p \in Registered, marble \in OnBoardPositions, direction \in Dirs :
    board[marble[1]][marble[2]] # color[p]
      => ~make_move(p, marble, direction).ret

\* A call has been rejected for naming a cell that does not hold the
\* caller's marble, the turn being the caller's.
C8_Witness == moves > 0 /\ winner = None /\ ~ret /\ exit = 167

\* C9: a call returns false when the on-board cell behind the chosen marble
\* holds a marble; when that cell is empty or off the board, on any side,
\* the check of the cell behind does not reject the call.
C9_CellBehind ==
  \A p \in Names, marble \in OnBoardPositions, direction \in DOMAIN DIRECTIONS :
    LET res == make_move(p, marble, direction)
        behind == <<marble[1] - DIRECTIONS[direction][1],
                    marble[2] - DIRECTIONS[direction][2]>>
    IN  IF ~OffBoard(behind) /\ board[behind[1]][behind[2]] # "X"
          THEN ~res.ret
          ELSE res.exit # 175

\* After an accepted move of a marble whose cell behind was off the board
\* on the far side (index 7), a call has been rejected by the check of the
\* cell behind.
C9_Witness ==
  /\ ~ret /\ exit = 175
  /\ moves > 0
  /\ \/ lastMove.marble[1] - DIRECTIONS[lastMove.direction][1] = N
     \/ lastMove.marble[2] - DIRECTIONS[lastMove.direction][2] = N

\* C10: get_marble fails for exactly the positions with a coordinate that is
\* negative or 7 or more and returns the cell for every other position; a
\* make_move call for an off-board position returns false at the position
\* check or before it, touching nothing.
C10_OffBoard ==
  \A marble \in Positions :
    IF OffBoard(marble)
      THEN /\ get_marble(board, marble) = IndexError
           /\ \A p \in Names, direction \in Dirs :
                LET res == make_move(p, marble, direction)
                IN  ~res.ret /\ res.exit <= 163 /\ Untouched(res)
      ELSE get_marble(board, marble) = board[marble[1]][marble[2]]

\* A call has been rejected for an off-board marble position.
C10_Witness == ~ret /\ exit = 163

\* ------------------------------------------------------------------------
\* The reference push
\* ------------------------------------------------------------------------

\* The position k cells from m in the direction of offset.
Step(m, offset, k) == <<m[1] + k * offset[1], m[2] + k * offset[2]>>

\* The cells m, m + offset, ..., the first k of them, all hold a marble.
Occupied(b, m, offset, k) ==
  \A i \in 0..(k-1) :
    LET p == Step(m, offset, i)
    IN  ~OffBoard(p) /\ b[p[1]][p[2]] # "X"

\* Length of the contiguous run of marbles that starts at the marble m.
RunLength(b, m, offset) ==
  CHOOSE k \in 1..N :
    /\ Occupied(b, m, offset, k)
    /\ ~Occupied(b, m, offset, k + 1)

\* The board b after the push of the run at m: every marble of the run one
\* cell further, the one that leaves the board gone, the cell m empty.
RefPush(b, m, offset) ==
  LET k == RunLength(b, m, offset)
  IN  [r \in 0..(N-1) |-> [c \in 0..(N-1) |->
        IF \E i \in 1..k : <<r, c>> = Step(m, offset, i)
          THEN LET i == CHOOSE j \in 1..k : <<r, c>> = Step(m, offset, j)
                   from == Step(m, offset, i - 1)
               IN  b[from[1]][from[2]]
          ELSE IF <<r, c>> = m THEN "X" ELSE b[r][c]]]

Whites(b) == Cardinality({p \in OnBoardPositions : b[p[1]][p[2]] = "W"})

Blacks(b) == Cardinality({p \in OnBoardPositions : b[p[1]][p[2]] = "B"})

Neutrals(b) == Cardinality({p \in OnBoardPositions : b[p[1]][p[2]] = "R"})

Marbles(b) == Whites(b) + Blacks(b) + Neutrals(b)

\* C13: after an accepted move the board is the reference push of the board
\* before it, for runs of every length, a single marble pushed off the edge
\* included.
C13_BoardIsReferencePush ==
  moves > 0 =>
    board = RefPush(prevBoard, lastMove.marble, DIRECTIONS[lastMove.direction])

\* C14: an accepted move of P raises P's capture counter by exactly 1 if the
\* far-end marble of the run is neutral and leaves the board, and leaves it
\* unchanged otherwise; the opponent's counter does not change.
C14_CaptureCount ==
  \A p \in Registered, marble \in OnBoardPositions,
     direction \in DOMAIN DIRECTIONS :
    LET res == make_move(p, marble, direction)
        offset == DIRECTIONS[direction]
        k == RunLength(board, marble, offset)
        far == Step(marble, offset, k - 1)
        gain == IF board[far[1]][far[2]] = "R"
                   /\ OffBoard(Step(marble, offset, k))
                  THEN 1 ELSE 0
    IN  res.ret =>
          /\ res.captured[p] = captured[p] + gain
          /\ res.captured[OtherPlayer(p)] = captured[OtherPlayer(p)]

\* An accepted move has pushed a neutral marble off the board, and the
\* mover's counter stands between 1 and 6.
C14_Witness ==
  /\ ret /\ exit = 265
  /\ Neutrals(prevBoard) = Neutrals(board) + 1
  /\ captured[lastMove.player] \in 1..(CaptureGoal - 1)
  /\ captured[OtherPlayer(lastMove.player)] = 0

\* C17: for every marble on the board, _has_legal_move is true iff one of
\* the four orthogonally adjacent cells is empty or off the board.
C17_LegalMoveIffFreeNeighbour ==
  \A m \in OnBoardPositions :
    board[m[1]][m[2]] # "X" =>
      (_has_legal_move(board, m) <=>
         \E n \in {<<m[1] - 1, m[2]>>, <<m[1] + 1, m[2]>>,
                   <<m[1], m[2] - 1>>, <<m[1], m[2] + 1>>} :
           OffBoard(n) \/ board[n[1]][n[2]] = "X")

\* The board holds a marble without a legal move, and a marble of the last
\* row or column whose only free neighbour is off the board.
C17_Witness ==
  /\ \E m \in OnBoardPositions :
       board[m[1]][m[2]] # "X" /\ ~_has_legal_move(board, m)
  /\ \E m \in OnBoardPositions :
       /\ board[m[1]][m[2]] # "X"
       /\ m[1] = N - 1 \/ m[2] = N - 1
       /\ _has_legal_move(board, m)
       /\ \A n \in {<<m[1] - 1, m[2]>>, <<m[1] + 1, m[2]>>,
                    <<m[1], m[2] - 1>>, <<m[1], m[2] + 1>>} :
            OffBoard(n) \/ board[n[1]][n[2]] # "X"

\* C18: the neutral marbles on the board and the two capture counters add
\* up to 13, after any sequence of calls.
C18_NeutralsConserved ==
  Neutrals(board) + captured[PlayerNames[1]] + captured[PlayerNames[2]] = 13

\* After captures, a call has been rejected.
C18_Witness ==
  /\ ~ret /\ exit # 0
  /\ captured[PlayerNames[1]] + captured[PlayerNames[2]] > 0

\* C20: the board is always 7 by 7 with cells among empty, neutral, white
\* and black; no call raises the number of white, of black or of neutral
\* marbles, and none lowers the number of marbles by more than one.
C20_BoardShapeAndCounts ==
  /\ [](/\ DOMAIN board = 0..6
        /\ \A r \in 0..6 :
             /\ DOMAIN board[r] = 0..6
             /\ \A c \in 0..6 : board[r][c] \in {"X", "R", "W", "B"})
  /\ [][/\ Whites(board') <= Whites(board)
        /\ Blacks(board') <= Blacks(board)
        /\ Neutrals(board') <= Neutrals(board)
        /\ Marbles(board') >= Marbles(board) - 1]_vars

\* An accepted move has pushed a white or black marble off the board.
C20_Witness ==
  /\ ret /\ exit = 265
  /\ Marbles(board) = Marbles(prevBoard) - 1
  /\ Neutrals(board) = Neutrals(prevBoard)

\* ------------------------------------------------------------------------
\* Properties of the construction
\* ------------------------------------------------------------------------

\* The arguments a constructor must refuse: an empty name, a color that is
\* neither W nor B, equal colors, equal names.
InvalidArgs(a) ==
  \/ \E i \in 1..2 : a[i][1] = ""
  \/ \E i \in 1..2 : a[i][2] \notin {<<"W">>, <<"B">>}
  \/ a[1][2] = a[2][2]
  \/ a[1][1] = a[2][1]

\* C11: construction fails, and no game exists, for every pair of arguments
\* with an empty name, a color that is not exactly W or B, equal colors or
\* equal names.
C11_InvalidArgsRejected ==
  built # "none" /\ InvalidArgs(args) => built = "ValueError"

\* C12: a game freshly constructed for two valid players has the marble
\* counts (8, 8, 13), both capture counters 0, no turn, no winner, and a
\* previous-board snapshot equal to the initial board.
C12_FreshGame ==
  built = "ok" /\ ~InvalidArgs(args) =>
    /\ get_marble_count(board) = <<8, 8, 13>>
    /\ \A i \in 1..2 : captured[args[i][1]] = 0
    /\ current = None
    /\ winner = None
    /\ last_board = board
    /\ last_board = InitialBoard

\* A game has been constructed for two valid players, the second of them
\* with the white marbles.
C12_Witness ==
  /\ built = "ok" /\ ~InvalidArgs(args) /\ moves = 0 /\ exit = 0
  /\ args[2][2] = <<"W">>

\* ------------------------------------------------------------------------
\* Properties of the win evaluation
\* ------------------------------------------------------------------------

\* The cell n is off the board or empty on the board b.
Free(b, n) == OffBoard(n) \/ b[n[1]][n[2]] = "X"

Neighbours(m) ==
  {<<m[1] - 1, m[2]>>, <<m[1] + 1, m[2]>>, <<m[1], m[2] - 1>>, <<m[1], m[2] + 1>>}

\* No marble of the color col on b has a free neighbouring cell.
Stuck(b, col) ==
  \A m \in OnBoardPositions :
    b[m[1]][m[2]] = col => \A n \in Neighbours(m) : ~Free(b, n)

\* The marbles of color col on the board b.
CountOf(b, col) == Cardinality({m \in OnBoardPositions : b[m[1]][m[2]] = col})

\* C15: after an accepted move of P that leaves P's counter below 7, P is
\* the winner if the opponent has no marble left on the board.
C15_NoOpponentMarblesWin ==
  \A p \in Registered, marble \in OnBoardPositions,
     direction \in DOMAIN DIRECTIONS :
    LET res == make_move(p, marble, direction)
    IN  /\ res.ret
        /\ res.captured[p] < 7
        /\ CountOf(res.board, color[OtherPlayer(p)]) = 0
        => res.winner = p

\* A move has pushed the opponent's last marble off the board and won the
\* game with fewer than 7 captures.
C15_Witness ==
  /\ ret /\ exit = 265
  /\ winner = lastMove.player
  /\ captured[winner] < 7
  /\ CountOf(board, color[OtherPlayer(winner)]) = 0
  /\ CountOf(prevBoard, color[OtherPlayer(winner)]) = 1

\* C16: after an accepted move to which neither the seven captures nor the
\* missing opponent marbles apply, the player of the other color wins iff
\* exactly one color has no marble with a legal move; when both colors or
\* neither lack a legal move there is no winner.
C16_MovelessColorLoses ==
  \A p \in Registered, marble \in OnBoardPositions,
     direction \in DOMAIN DIRECTIONS :
    LET res == make_move(p, marble, direction)
        stuck == {n \in Registered : Stuck(res.board, color[n])}
    IN  /\ res.ret
        /\ res.captured[p] < 7
        /\ CountOf(res.board, color[OtherPlayer(p)]) # 0
        => IF Cardinality(stuck) = 1
             THEN \A n \in stuck : res.winner = OtherPlayer(n)
             ELSE res.winner = None

\* A move has left the opponent with marbles on the board, none of which
\* has a legal move, and the mover has won with fewer than 7 captures.
C16_Witness ==
  /\ ret /\ exit = 265
  /\ winner = lastMove.player
  /\ captured[winner] < 7
  /\ CountOf(board, color[OtherPlayer(winner)]) > 0
  /\ Stuck(board, color[OtherPlayer(winner)])
  /\ ~Stuck(board, color[winner])

\* C19: while there is no winner, each player has a marble of their color
\* and a direction for it that pass every check before the push, so that
\* only the turn check or the repetition check can still reject the move.
C19_BothCanMove ==
  winner = None =>
    \A p \in Registered :
      \E marble \in OnBoardPositions, direction \in DOMAIN DIRECTIONS :
        /\ board[marble[1]][marble[2]] = color[p]
        /\ Free(board, <<marble[1] - DIRECTIONS[direction][1],
                         marble[2] - DIRECTIONS[direction][2]>>)
        /\ make_move(p, marble, direction).exit \in {157, 211, 265}

\* The game goes on after an accepted move although one of the opponent's
\* marbles is shut in on all four sides.
C19_Witness ==
  /\ ret /\ exit = 265 /\ winner = None
  /\ \E m \in OnBoardPositions :
       /\ board[m[1]][m[2]] = color[OtherPlayer(lastMove.player)]
       /\ \A n \in Neighbours(m) : ~Free(board, n)

====
